---- MODULE Spec2Model ----
(***************************************************************************)
(* Order placement and stock consistency of the e-commerce backend:        *)
(* OrderService (createOrder, cancelOrder, updateOrderStatus,              *)
(* getOrderById) behind the order controller and the order routes.         *)
(*                                                                         *)
(* Every `await` on a repository is one storage operation; the storage     *)
(* executes each operation atomically, and the handlers of different       *)
(* requests interleave between them.  One action of the model is one       *)
(* storage operation together with the local code that follows it up to    *)
(* the next `await`.                                                       *)
(*                                                                         *)
(* Several systems run the same actions on different traffic:              *)
(*   Spec        create, cancel, status update; two requests interleaving  *)
(*   SeqSpec     the same, by a user and an admin, one request at a time   *)
(*   CreateSpec  createOrder only; two requests interleaving               *)
(*   NumberSpec  createOrder only, order numbers colliding; interleaving   *)
(*   LifeSpec    one admin, a longer sequence on few orders                *)
(*   ReadSpec    createOrder and every GET route, one request at a time    *)
(*   ListSpec    createOrder and GET / with a valid page and limit         *)
(*   CatalogSpec the order writes and product price and stock updates      *)
(*   CrashSpec   create and cancel; the process may exit between awaits     *)
(*   WatchSpec   createOrder beside GET / and GET /:id; interleaving       *)
(*   PairSpec    create and cancel; two requests interleaving              *)
(*   IndepSpec   the same, the first request answered before the next      *)
(* log records each response with the stock at the request's arrival and   *)
(* at its response, and whether the request ran alone (quiet).             *)
(***************************************************************************)
EXTENDS Integers, Sequences, FiniteSets, TLC

\* ---------------------------------------------------------------- bounds
\* requests received in one run
MaxRequests == 3
\* requests received in one run of createOrder traffic only
MaxCreates == 2
\* requests received in one run about the lifetime of an order
MaxLifeRequests == 4
\* orders created, and GET requests received, in one run of reads
MaxOrders == 3
MaxReads == 1
\* requests received in one run of orders and catalog updates
MaxCatalogRequests == 3
\* requests received in one run in which the process may stop
MaxCrashRequests == 3
\* requests received in one run of orders created and read side by side
MaxWatchRequests == 2
\* requests received in one run of orders created and cancelled side by side
MaxPairRequests == 3
\* requests received in one run of independent orders side by side
MaxIndepRequests == 3

\* ------------------------------------------------------------ the catalog
\* two request slots: handlers of two requests interleave
Procs == {1, 2}
\* the product rows; "Z" is an id without a row
Products == {"A", "B"}
ProductIds == Products \cup {"Z"}
\* the stock of the products when the service starts
InitialStock == 5

\* OrderStatus enum
PENDING == "pending"
CONFIRMED == "confirmed"
SHIPPED == "shipped"
DELIVERED == "delivered"
CANCELLED == "cancelled"
OrderStatus == {PENDING, CONFIRMED, SHIPPED, DELIVERED, CANCELLED}

\* the authenticated principals (req.user): id and role
Principals == {[id |-> "alice", role |-> "user"], [id |-> "root", role |-> "admin"]}
NoUser == [id |-> "", role |-> ""]

\* the messages of the errors the handlers produce
ErrNone == "none"
ErrProductNotFound == "Product not found"
ErrProductUnavailable == "Product is not available"
ErrInsufficientStock == "Insufficient stock"
ErrDuplicateOrderNumber == "duplicate key orderNumber"
ErrOrderNotFound == "Order not found"
ErrAccessDenied == "Access denied"
ErrAdminRequired == "Admin access required"
ErrAlreadyCancelled == "Order is already cancelled"
ErrDelivered == "Cannot cancel delivered order"
ErrQueryFailed == "query failed"

VARIABLES
    stockQuantity,  \* Product.stockQuantity, per product row
    isAvailable,    \* Product.isAvailable, per product row
    price,          \* Product.price in cents, per product row
    orders,         \* the Order table: row i has id i
    orderItems,     \* the OrderItem table, in insertion order
    proc,           \* per request slot: the handler's position and locals
    nreq,           \* number of requests received so far
    log             \* the answered requests, in the order of their responses

vars == <<stockQuantity, isAvailable, price, orders, orderItems, proc, nreq, log>>

\* ---------------------------------------------------------------- helpers
RECURSIVE SumSeq(_)
SumSeq(s) == IF s = <<>> THEN 0 ELSE Head(s) + SumSeq(Tail(s))

\* total quantity of the lines of `its` that reference product pid
QtyFor(its, pid) ==
    SumSeq([i \in DOMAIN its |-> IF its[i].productId = pid THEN its[i].quantity ELSE 0])

NoOrder == [id |-> 0, orderNumber |-> 0, userId |-> "", status |-> "",
            totalAmount |-> 0, items |-> <<>>]

\* OrderService.getOrderById: the order row with its items relation loaded, or null
ItemsOf(oid) == SelectSeq(orderItems, LAMBDA it : it.orderId = oid)

getOrderById(oid) ==
    IF oid \in DOMAIN orders
    THEN [id |-> oid, orderNumber |-> orders[oid].orderNumber,
          userId |-> orders[oid].userId, status |-> orders[oid].status,
          totalAmount |-> orders[oid].totalAmount, items |-> ItemsOf(oid)]
    ELSE NoOrder

\* one line of a request body
Item(pid, q) == [productId |-> pid, quantity |-> q]

\* a JavaScript number as the list handlers use it: an integer, or NaN
NaN == [nan |-> TRUE, v |-> 0]
Num(n) == [nan |-> FALSE, v |-> n]

\* the body of a list response before any is computed
NoList == [orders |-> <<>>, total |-> 0, page |-> NaN, limit |-> NaN, totalPages |-> NaN]

Idle == [pc |-> "idle", rid |-> 0, kind |-> "", user |-> NoUser, items |-> <<>>,
         oid |-> 0, newStatus |-> "", orderNumber |-> 0, idx |-> 0,
         totalAmount |-> 0, orderItems |-> <<>>, savedId |-> 0, order |-> NoOrder,
         pre |-> [p \in Products |-> 0], preOrders |-> 0, preItems |-> 0,
         quiet |-> FALSE, conc |-> {}, wrote |-> FALSE, before |-> NoOrder,
         path |-> <<>>, handler |-> "", page |-> NaN, limit |-> NaN, total |-> 0,
         list |-> NoList]

Active == {q \in Procs : proc[q].pc # "idle"}

\* a request arrives on slot p: the requests in progress are no longer alone
Arrive(p, r) ==
    [q \in Procs |-> IF q = p THEN r
                     ELSE IF proc[q].pc # "idle" THEN [proc[q] EXCEPT !.quiet = FALSE]
                     ELSE proc[q]]

NewRequest(p, kind, u) ==
    [Idle EXCEPT !.rid = nreq + 1, !.kind = kind, !.user = u,
                 !.pre = stockQuantity, !.preOrders = Len(orders), !.preItems = Len(orderItems),
                 !.quiet = (Active \ {p} = {}),
                 !.conc = {proc[q].rid : q \in Active \ {p}}]

\* slot p takes the next request; the slots are interchangeable, so the lowest
\* idle one does
CanArrive(p) ==
    /\ proc[p].pc = "idle"
    /\ \A q \in Procs : q < p => proc[q].pc # "idle"

\* the response to request r: what the client gets (http, err, ret), and what the
\* storage held when the request arrived (pre*, before: the order the request
\* names) and when it was answered (post*, stored: that order again)
Response(r, http, err, ret) ==
    [rid |-> r.rid, kind |-> r.kind, user |-> r.user, items |-> r.items, oid |-> r.oid,
     newStatus |-> r.newStatus, http |-> http, err |-> err, ret |-> ret,
     pre |-> r.pre, post |-> stockQuantity, preOrders |-> r.preOrders, preItems |-> r.preItems,
     postOrders |-> Len(orders), postItems |-> Len(orderItems),
     seen |-> r.order, quiet |-> r.quiet, conc |-> r.conc, wrote |-> r.wrote,
     before |-> r.before, stored |-> getOrderById(r.oid),
     path |-> r.path, handler |-> r.handler, page |-> r.page, limit |-> r.limit,
     list |-> r.list]

\* ------------------------------------------------------------ OrderService
\* ValidateItem without the isAvailable check
ValidateItemNoAvailability(item) ==
    IF item.productId \notin Products THEN ErrProductNotFound
    ELSE IF stockQuantity[item.productId] < item.quantity THEN ErrInsufficientStock
    ELSE ErrNone

\* the validation of one requested item against the product row just read
ValidateItem(item) ==
    IF item.productId \notin Products THEN ErrProductNotFound
    ELSE IF ~isAvailable[item.productId] THEN ErrProductUnavailable
    ELSE IF stockQuantity[item.productId] < item.quantity THEN ErrInsufficientStock
    ELSE ErrNone

\* BuildItem with the quantity left out of the line total
BuildItemUnitTotal(item) ==
    [productId |-> item.productId, quantity |-> item.quantity,
     unitPrice |-> price[item.productId],
     totalPrice |-> price[item.productId]]

\* the order item built from a validated request item
BuildItem(item) ==
    [productId |-> item.productId, quantity |-> item.quantity,
     unitPrice |-> price[item.productId],
     totalPrice |-> price[item.productId] * item.quantity]

\* `ORD-${Date.now()}-${random}`: only equality with another order's number is
\* ever observed, so a generated number is one already in use or a fresh one
UsedNumbers ==
    {orders[i].orderNumber : i \in DOMAIN orders}
        \cup {proc[q].orderNumber : q \in {x \in Procs : proc[x].kind = "create"}}

FreshNumber ==
    CHOOSE n \in 1..(Cardinality(UsedNumbers) + 1) :
        /\ n \notin UsedNumbers
        /\ \A m \in 1..(n - 1) : m \in UsedNumbers

OrderNumberChoices(collide) ==
    IF collide THEN UsedNumbers \cup {FreshNumber} ELSE {FreshNumber}

\* createOrder, lines 30-36: the controller passes user.id and the body; the
\* order number is generated and the totals are initialised
CreateStart(p, u, its, num) ==
    /\ CanArrive(p)
    /\ nreq' = nreq + 1
    /\ proc' = Arrive(p, [NewRequest(p, "create", u) EXCEPT
                            !.pc = IF its = <<>> THEN "c_saveOrder" ELSE "c_validate",
                            !.items = its, !.orderNumber = num, !.idx = 1])
    /\ UNCHANGED <<stockQuantity, isAvailable, price, orders, orderItems, log>>

\* createOrder, lines 39-63: one iteration of the validation loop
CreateValidate(p) ==
    LET r == proc[p]
        item == r.items[r.idx]
        e == ValidateItem(item)
        bi == BuildItem(item)
    IN  /\ r.pc = "c_validate"
        /\ IF e # ErrNone
           THEN /\ log' = Append(log, Response(r, 400, e, NoOrder))
                /\ proc' = [proc EXCEPT ![p] = Idle]
           ELSE /\ proc' = [proc EXCEPT ![p] =
                        [r EXCEPT !.totalAmount = r.totalAmount + bi.totalPrice,
                                  !.orderItems = Append(r.orderItems, bi),
                                  !.idx = IF r.idx = Len(r.items) THEN 1 ELSE r.idx + 1,
                                  !.pc = IF r.idx = Len(r.items) THEN "c_saveOrder"
                                         ELSE "c_validate"]]
                /\ UNCHANGED log
        /\ UNCHANGED <<stockQuantity, isAvailable, price, orders, orderItems, nreq>>

\* CreateSaveOrder on a table without the unique constraint on orderNumber
CreateSaveOrderNoUnique(p) ==
    LET r == proc[p]
    IN  /\ r.pc = "c_saveOrder"
        /\ orders' = Append(orders, [orderNumber |-> r.orderNumber,
                                     userId |-> r.user.id,
                                     status |-> PENDING,
                                     totalAmount |-> r.totalAmount])
        /\ proc' = [proc EXCEPT ![p] =
                [r EXCEPT !.savedId = Len(orders) + 1, !.wrote = TRUE,
                          !.pc = "c_saveItems"]]
        /\ UNCHANGED <<stockQuantity, isAvailable, price, orderItems, nreq, log>>

\* createOrder, lines 66-78: orderRepo.save(order); orderNumber is a unique column
CreateSaveOrder(p) ==
    LET r == proc[p]
    IN  /\ r.pc = "c_saveOrder"
        /\ IF \E i \in DOMAIN orders : orders[i].orderNumber = r.orderNumber
           THEN /\ log' = Append(log, Response(r, 400, ErrDuplicateOrderNumber, NoOrder))
                /\ proc' = [proc EXCEPT ![p] = Idle]
                /\ UNCHANGED orders
           ELSE /\ orders' = Append(orders, [orderNumber |-> r.orderNumber,
                                             userId |-> r.user.id,
                                             status |-> PENDING,
                                             totalAmount |-> r.totalAmount])
                /\ proc' = [proc EXCEPT ![p] =
                        [r EXCEPT !.savedId = Len(orders) + 1, !.wrote = TRUE,
                                  !.pc = "c_saveItems"]]
                /\ UNCHANGED log
        /\ UNCHANGED <<stockQuantity, isAvailable, price, orderItems, nreq>>

\* createOrder, lines 81-86: orderItemRepo.save of all the items at once
CreateSaveItems(p) ==
    LET r == proc[p]
        rows == [i \in DOMAIN r.orderItems |->
                    [orderId |-> r.savedId,
                     productId |-> r.orderItems[i].productId,
                     quantity |-> r.orderItems[i].quantity,
                     unitPrice |-> r.orderItems[i].unitPrice,
                     totalPrice |-> r.orderItems[i].totalPrice]]
    IN  /\ r.pc = "c_saveItems"
        /\ orderItems' = orderItems \o rows
        /\ proc' = [proc EXCEPT ![p] =
                [r EXCEPT !.pc = IF r.items = <<>> THEN "c_return" ELSE "c_decrement"]]
        /\ UNCHANGED <<stockQuantity, isAvailable, price, orders, nreq, log>>

\* CreateDecrement taking one unit per line instead of the line's quantity
CreateDecrementByOne(p) ==
    LET r == proc[p]
        item == r.items[r.idx]
    IN  /\ r.pc = "c_decrement"
        /\ stockQuantity' = [stockQuantity EXCEPT ![item.productId] = @ - 1]
        /\ proc' = [proc EXCEPT ![p] =
                [r EXCEPT !.idx = r.idx + 1,
                          !.pc = IF r.idx = Len(r.items) THEN "c_return"
                                 ELSE "c_decrement"]]
        /\ UNCHANGED <<isAvailable, price, orders, orderItems, nreq, log>>

\* CreateDecrement writing the whole stock back from what the request first saw
CreateDecrementFromSnapshot(p) ==
    LET r == proc[p]
        item == r.items[r.idx]
    IN  /\ r.pc = "c_decrement"
        /\ stockQuantity' = [pid \in Products |->
                IF pid = item.productId THEN stockQuantity[pid] - item.quantity
                ELSE r.pre[pid]]
        /\ proc' = [proc EXCEPT ![p] =
                [r EXCEPT !.idx = r.idx + 1,
                          !.pc = IF r.idx = Len(r.items) THEN "c_return"
                                 ELSE "c_decrement"]]
        /\ UNCHANGED <<isAvailable, price, orders, orderItems, nreq, log>>

\* createOrder, lines 89-91: one productRepo.decrement of the stock loop
CreateDecrement(p) ==
    LET r == proc[p]
        item == r.items[r.idx]
    IN  /\ r.pc = "c_decrement"
        /\ stockQuantity' = [stockQuantity EXCEPT ![item.productId] = @ - item.quantity]
        /\ proc' = [proc EXCEPT ![p] =
                [r EXCEPT !.idx = r.idx + 1,
                          !.pc = IF r.idx = Len(r.items) THEN "c_return"
                                 ELSE "c_decrement"]]
        /\ UNCHANGED <<isAvailable, price, orders, orderItems, nreq, log>>

\* createOrder, lines 94-98, and the controller's 201
CreateReturn(p) ==
    LET r == proc[p]
        o == getOrderById(r.savedId)
    IN  /\ r.pc = "c_return"
        /\ log' = Append(log, Response(r, 201, ErrNone, o))
        /\ proc' = [proc EXCEPT ![p] = Idle]
        /\ UNCHANGED <<stockQuantity, isAvailable, price, orders, orderItems, nreq>>

\* ---------------------------------------------------------- cancelOrder
\* CancelStart without the owner-or-admin check
CancelStartNoAccessCheck(p, u, oid) ==
    LET o == getOrderById(oid)
        r == [NewRequest(p, "cancel", u) EXCEPT !.oid = oid, !.order = o, !.before = o]
    IN  /\ CanArrive(p)
        /\ nreq' = nreq + 1
        /\ IF o = NoOrder
           THEN /\ log' = Append(log, Response(r, 404, ErrOrderNotFound, NoOrder))
                /\ proc' = Arrive(p, Idle)
           ELSE /\ proc' = Arrive(p, [r EXCEPT !.pc = "x_read"])
                /\ UNCHANGED log
        /\ UNCHANGED <<stockQuantity, isAvailable, price, orders, orderItems>>

\* controller cancelOrder, lines 378-390: getOrderById, 404, owner-or-admin 403
CancelStart(p, u, oid) ==
    LET o == getOrderById(oid)
        r == [NewRequest(p, "cancel", u) EXCEPT !.oid = oid, !.order = o, !.before = o]
    IN  /\ CanArrive(p)
        /\ nreq' = nreq + 1
        /\ IF o = NoOrder
           THEN /\ log' = Append(log, Response(r, 404, ErrOrderNotFound, NoOrder))
                /\ proc' = Arrive(p, Idle)
           ELSE IF o.userId # u.id /\ u.role # "admin"
           THEN /\ log' = Append(log, Response(r, 403, ErrAccessDenied, NoOrder))
                /\ proc' = Arrive(p, Idle)
           ELSE /\ proc' = Arrive(p, [r EXCEPT !.pc = "x_read"])
                /\ UNCHANGED log
        /\ UNCHANGED <<stockQuantity, isAvailable, price, orders, orderItems>>

\* CancelRead without the already-cancelled check
CancelReadNoCancelledCheck(p) ==
    LET r == proc[p]
        o == getOrderById(r.oid)
        e == IF o = NoOrder THEN ErrOrderNotFound
             ELSE IF o.status = DELIVERED THEN ErrDelivered
             ELSE ErrNone
    IN  /\ r.pc = "x_read"
        /\ IF e # ErrNone
           THEN /\ log' = Append(log, Response(r, 400, e, NoOrder))
                /\ proc' = [proc EXCEPT ![p] = Idle]
           ELSE /\ proc' = [proc EXCEPT ![p] =
                        [r EXCEPT !.order = o, !.idx = 1,
                                  !.pc = IF o.items = <<>> THEN "x_update"
                                         ELSE "x_increment"]]
                /\ UNCHANGED log
        /\ UNCHANGED <<stockQuantity, isAvailable, price, orders, orderItems, nreq>>

\* CancelRead without the delivered check
CancelReadNoDeliveredCheck(p) ==
    LET r == proc[p]
        o == getOrderById(r.oid)
        e == IF o = NoOrder THEN ErrOrderNotFound
             ELSE IF o.status = CANCELLED THEN ErrAlreadyCancelled
             ELSE ErrNone
    IN  /\ r.pc = "x_read"
        /\ IF e # ErrNone
           THEN /\ log' = Append(log, Response(r, 400, e, NoOrder))
                /\ proc' = [proc EXCEPT ![p] = Idle]
           ELSE /\ proc' = [proc EXCEPT ![p] =
                        [r EXCEPT !.order = o, !.idx = 1,
                                  !.pc = IF o.items = <<>> THEN "x_update"
                                         ELSE "x_increment"]]
                /\ UNCHANGED log
        /\ UNCHANGED <<stockQuantity, isAvailable, price, orders, orderItems, nreq>>

\* service cancelOrder, lines 166-178: the order is read again and its status checked
CancelRead(p) ==
    LET r == proc[p]
        o == getOrderById(r.oid)
        e == IF o = NoOrder THEN ErrOrderNotFound
             ELSE IF o.status = CANCELLED THEN ErrAlreadyCancelled
             ELSE IF o.status = DELIVERED THEN ErrDelivered
             ELSE ErrNone
    IN  /\ r.pc = "x_read"
        /\ IF e # ErrNone
           THEN /\ log' = Append(log, Response(r, 400, e, NoOrder))
                /\ proc' = [proc EXCEPT ![p] = Idle]
           ELSE /\ proc' = [proc EXCEPT ![p] =
                        [r EXCEPT !.order = o, !.idx = 1,
                                  !.pc = IF o.items = <<>> THEN "x_update"
                                         ELSE "x_increment"]]
                /\ UNCHANGED log
        /\ UNCHANGED <<stockQuantity, isAvailable, price, orders, orderItems, nreq>>

\* CancelIncrement with the restore loop stopping one item early
CancelIncrementSkipsLast(p) ==
    LET r == proc[p]
        item == r.order.items[r.idx]
    IN  /\ r.pc = "x_increment"
        /\ stockQuantity' = IF r.idx = Len(r.order.items) /\ r.idx > 1 THEN stockQuantity
                    ELSE [stockQuantity EXCEPT ![item.productId] = @ + item.quantity]
        /\ proc' = [proc EXCEPT ![p] =
                [r EXCEPT !.idx = r.idx + 1, !.wrote = TRUE,
                          !.pc = IF r.idx = Len(r.order.items) THEN "x_update"
                                 ELSE "x_increment"]]
        /\ UNCHANGED <<isAvailable, price, orders, orderItems, nreq, log>>

\* service cancelOrder, lines 181-183: one productRepo.increment of the restore loop
CancelIncrement(p) ==
    LET r == proc[p]
        item == r.order.items[r.idx]
    IN  /\ r.pc = "x_increment"
        /\ stockQuantity' = [stockQuantity EXCEPT ![item.productId] = @ + item.quantity]
        /\ proc' = [proc EXCEPT ![p] =
                [r EXCEPT !.idx = r.idx + 1, !.wrote = TRUE,
                          !.pc = IF r.idx = Len(r.order.items) THEN "x_update"
                                 ELSE "x_increment"]]
        /\ UNCHANGED <<isAvailable, price, orders, orderItems, nreq, log>>

\* orderRepo.update({id}, {status}): no row with that id, no change
\* SetStatus as an update without its where clause: every order row is written
SetStatusEveryRow(oid, st) == [i \in DOMAIN orders |-> [orders[i] EXCEPT !.status = st]]

\* orderRepo.update({ id }, { status }), line 161: one column of one row
SetStatus(oid, st) ==
    IF oid \in DOMAIN orders THEN [orders EXCEPT ![oid].status = st] ELSE orders

\* CancelUpdate without the status write
CancelUpdateKeepsStatus(p) ==
    LET r == proc[p]
    IN  /\ r.pc = "x_update"
        /\ proc' = [proc EXCEPT ![p] = [r EXCEPT !.wrote = TRUE, !.pc = "x_return"]]
        /\ UNCHANGED <<stockQuantity, isAvailable, price, orders, orderItems, nreq, log>>

\* service cancelOrder, line 185, into updateOrderStatus, line 161
CancelUpdate(p) ==
    LET r == proc[p]
    IN  /\ r.pc = "x_update"
        /\ orders' = SetStatus(r.oid, CANCELLED)
        /\ proc' = [proc EXCEPT ![p] = [r EXCEPT !.wrote = TRUE, !.pc = "x_return"]]
        /\ UNCHANGED <<stockQuantity, isAvailable, price, orderItems, nreq, log>>

\* updateOrderStatus, line 162, and the controller's 200
CancelReturn(p) ==
    LET r == proc[p]
    IN  /\ r.pc = "x_return"
        /\ log' = Append(log, Response(r, 200, ErrNone, getOrderById(r.oid)))
        /\ proc' = [proc EXCEPT ![p] = Idle]
        /\ UNCHANGED <<stockQuantity, isAvailable, price, orders, orderItems, nreq>>

\* ---------------------------------------------------- updateOrderStatus
\* UpdateStart without the isAdmin middleware
UpdateStartNoAdminCheck(p, u, oid, st) ==
    LET r == [NewRequest(p, "update", u) EXCEPT !.oid = oid, !.newStatus = st,
                                                !.before = getOrderById(oid)]
    IN  /\ CanArrive(p)
        /\ nreq' = nreq + 1
        /\ orders' = SetStatus(oid, st)
        /\ proc' = Arrive(p, [r EXCEPT !.wrote = TRUE, !.pc = "u_return"])
        /\ UNCHANGED <<stockQuantity, isAvailable, price, orderItems, log>>

\* route PUT /:id/status: isAdmin, then the controller and the service's
\* orderRepo.update, line 161
UpdateStart(p, u, oid, st) ==
    LET r == [NewRequest(p, "update", u) EXCEPT !.oid = oid, !.newStatus = st,
                                                !.before = getOrderById(oid)]
    IN  /\ CanArrive(p)
        /\ nreq' = nreq + 1
        /\ IF u.role # "admin"
           THEN /\ log' = Append(log, Response(r, 403, ErrAdminRequired, NoOrder))
                /\ proc' = Arrive(p, Idle)
                /\ UNCHANGED orders
           ELSE /\ orders' = SetStatus(oid, st)
                /\ proc' = Arrive(p, [r EXCEPT !.wrote = TRUE, !.pc = "u_return"])
                /\ UNCHANGED log
        /\ UNCHANGED <<stockQuantity, isAvailable, price, orderItems>>

\* updateOrderStatus, line 162, and the controller's 404 or 200
UpdateReturn(p) ==
    LET r == proc[p]
        o == getOrderById(r.oid)
    IN  /\ r.pc = "u_return"
        /\ log' = Append(log, IF o = NoOrder
                              THEN Response(r, 404, ErrOrderNotFound, NoOrder)
                              ELSE Response(r, 200, ErrNone, o))
        /\ proc' = [proc EXCEPT ![p] = Idle]
        /\ UNCHANGED <<stockQuantity, isAvailable, price, orders, orderItems, nreq>>

\* ---------------------------------------------------------- ProductService
\* repo.update({id}, data) on the product table: data sets the price or the stock
SetPrice(pid, field, value) ==
    IF pid \in Products /\ field = "price" THEN [price EXCEPT ![pid] = value] ELSE price

SetStock(pid, field, value) ==
    IF pid \in Products /\ field = "stockQuantity"
    THEN [stockQuantity EXCEPT ![pid] = value] ELSE stockQuantity

\* ProductUpdate that also rewrites the prices on the order items of the product
ProductUpdateRepricesItems(p, u, pid, field, value) ==
    LET r == NewRequest(p, "product", u)
    IN  /\ CanArrive(p)
        /\ nreq' = nreq + 1
        /\ u.role = "admin"
        /\ price' = SetPrice(pid, field, value)
        /\ stockQuantity' = SetStock(pid, field, value)
        /\ orderItems' = [i \in DOMAIN orderItems |->
                IF orderItems[i].productId = pid /\ field = "price"
                THEN [orderItems[i] EXCEPT !.unitPrice = value,
                                           !.totalPrice = value * orderItems[i].quantity]
                ELSE orderItems[i]]
        /\ proc' = Arrive(p, [r EXCEPT !.wrote = TRUE, !.pc = "p_return"])
        /\ UNCHANGED <<isAvailable, orders, log>>

\* route PUT /products/:id: isAdmin, then the controller updateProduct into
\* ProductService.update, line 352
ProductUpdate(p, u, pid, field, value) ==
    LET r == NewRequest(p, "product", u)
    IN  /\ CanArrive(p)
        /\ nreq' = nreq + 1
        /\ IF u.role # "admin"
           THEN /\ log' = Append(log, Response(r, 403, ErrAdminRequired, NoOrder))
                /\ proc' = Arrive(p, Idle)
                /\ UNCHANGED <<stockQuantity, price>>
           ELSE /\ price' = SetPrice(pid, field, value)
                /\ stockQuantity' = SetStock(pid, field, value)
                /\ proc' = Arrive(p, [r EXCEPT !.wrote = TRUE, !.pc = "p_return"])
                /\ UNCHANGED log
        /\ UNCHANGED <<isAvailable, orders, orderItems>>

\* ProductService.update, line 353, and the controller's res.json
ProductReturn(p) ==
    LET r == proc[p]
    IN  /\ r.pc = "p_return"
        /\ log' = Append(log, Response(r, 200, ErrNone, NoOrder))
        /\ proc' = [proc EXCEPT ![p] = Idle]
        /\ UNCHANGED <<stockQuantity, isAvailable, price, orders, orderItems, nreq>>

\* ------------------------------------------------------------- the process
ErrCrashed == "no response"

\* the process stops: the handler in progress on slot p is gone with its locals,
\* and what it wrote so far stays; log notes the request, with no response (0)
Crash(p) ==
    /\ proc[p].pc # "idle"
    /\ log' = Append(log, Response(proc[p], 0, ErrCrashed, NoOrder))
    /\ proc' = [proc EXCEPT ![p] = Idle]
    /\ UNCHANGED <<stockQuantity, isAvailable, price, orders, orderItems, nreq>>

\* ------------------------------------------------------------- the router
\* a segment of a route pattern, and of a request path (an order id, which is
\* a uuid in the program, is the segment "<uuid>" with the id beside it)
Param == [param |-> TRUE, text |-> ":id"]
Lit(t) == [param |-> FALSE, text |-> t]
IdSeg(oid) == [text |-> "<uuid>", id |-> oid]
AllSeg == [text |-> "all", id |-> 0]

\* order.routes.ts, in the order of registration
Routes ==
    << [method |-> "POST", path |-> <<>>, admin |-> FALSE, handler |-> "createOrder"],
       [method |-> "GET", path |-> <<>>, admin |-> FALSE, handler |-> "getUserOrders"],
       [method |-> "GET", path |-> <<Param>>, admin |-> FALSE, handler |-> "getOrder"],
       [method |-> "POST", path |-> <<Param, Lit("cancel")>>, admin |-> FALSE,
        handler |-> "cancelOrder"],
       [method |-> "GET", path |-> <<Lit("all")>>, admin |-> TRUE,
        handler |-> "getAllOrders"],
       [method |-> "PUT", path |-> <<Param, Lit("status")>>, admin |-> TRUE,
        handler |-> "updateOrderStatus"] >>

Matches(route, method, path) ==
    /\ route.method = method
    /\ Len(route.path) = Len(path)
    /\ \A i \in DOMAIN path : route.path[i].param \/ route.path[i].text = path[i].text

\* the router runs the first registered route that matches
Dispatch(method, path) ==
    LET hits == {i \in DOMAIN Routes : Matches(Routes[i], method, path)}
    IN  Routes[CHOOSE i \in hits : \A j \in hits : i <= j]

\* --------------------------------------------------------------- the lists
\* a query-string value is its characters; parseInt reads an optional sign and
\* the leading decimal digits, and gives NaN when there is no digit
Digits == <<"0", "1", "2", "3", "4", "5", "6", "7", "8", "9">>
IsDigit(c) == \E d \in DOMAIN Digits : Digits[d] = c
DigitValue(c) == (CHOOSE d \in DOMAIN Digits : Digits[d] = c) - 1

RECURSIVE LeadingDigits(_)
LeadingDigits(cs) ==
    IF cs = <<>> \/ ~IsDigit(Head(cs)) THEN <<>>
    ELSE <<Head(cs)>> \o LeadingDigits(Tail(cs))

RECURSIVE DecimalValue(_)
DecimalValue(ds) ==
    IF ds = <<>> THEN 0
    ELSE 10 * DecimalValue(SubSeq(ds, 1, Len(ds) - 1)) + DigitValue(ds[Len(ds)])

parseInt(cs) ==
    LET signed == cs # <<>> /\ Head(cs) \in {"-", "+"}
        ds == LeadingDigits(IF signed THEN Tail(cs) ELSE cs)
    IN  IF ds = <<>> THEN NaN
        ELSE IF signed /\ Head(cs) = "-" THEN Num(0 - DecimalValue(ds))
        ELSE Num(DecimalValue(ds))

\* req.query.x ? parseInt(req.query.x) : dflt
QueryNumber(raw, dflt) == IF raw = <<>> THEN Num(dflt) ELSE parseInt(raw)

\* the ids of a set of orders by createdAt descending: row i is the i-th created
RECURSIVE NewestFirst(_)
NewestFirst(ids) ==
    IF ids = {} THEN <<>>
    ELSE LET m == CHOOSE i \in ids : \A j \in ids : j <= i
         IN  <<m>> \o NewestFirst(ids \ {m})

UserOrderIds(userId) == {i \in DOMAIN orders : orders[i].userId = userId}
AllOrderIds == DOMAIN orders
Matching(r) == IF r.handler = "getAllOrders" THEN AllOrderIds ELSE UserOrderIds(r.user.id)

\* SkipTake keeping the first `limit` rows whatever the offset
SkipTakeNoSkip(rows, offset, limit) ==
    SubSeq(rows, 1, IF limit < Len(rows) THEN limit ELSE Len(rows))

\* .skip(offset).take(limit), for offset >= 0 and limit >= 1
SkipTake(rows, offset, limit) ==
    SubSeq(rows, offset + 1, IF offset + limit < Len(rows) THEN offset + limit ELSE Len(rows))

\* Math.ceil(total / limit), for limit >= 1
TotalPages(total, limit) == (total + limit - 1) \div limit

\* the rows of a page: the orders with their items, newest first
PageRows(ids, offset, limit) ==
    LET page == SkipTake(NewestFirst(ids), offset, limit)
    IN  [k \in DOMAIN page |-> getOrderById(page[k])]

\* OrderService.getUserOrders and getAllOrders on the storage as it is, for
\* page >= 1 and limit >= 1
ListResult(ids, page, limit) ==
    [orders |-> PageRows(ids, (page - 1) * limit, limit), total |-> Cardinality(ids),
     page |-> Num(page), limit |-> Num(limit),
     totalPages |-> Num(TotalPages(Cardinality(ids), limit))]

getUserOrders(userId, page, limit) == ListResult(UserOrderIds(userId), page, limit)
getAllOrders(page, limit) == ListResult(AllOrderIds, page, limit)

\* controller getOrder, lines 315-333: one read, then 404, 403 or the order; an
\* id that is not a uuid makes the query on the uuid column fail, and the catch
\* answers 500
GetOrder(p, r, seg) ==
    LET o == getOrderById(seg.id)
        q == [r EXCEPT !.oid = seg.id, !.order = o, !.before = o]
    IN  /\ log' = Append(log,
                IF seg.text # "<uuid>" THEN Response(r, 500, ErrQueryFailed, NoOrder)
                ELSE IF o = NoOrder THEN Response(q, 404, ErrOrderNotFound, NoOrder)
                ELSE IF o.userId # r.user.id /\ r.user.role # "admin"
                THEN Response(q, 403, ErrAccessDenied, NoOrder)
                ELSE Response(q, 200, ErrNone, o))
        /\ proc' = Arrive(p, Idle)

\* controllers getUserOrders, lines 261-267, and getAllOrders, lines 516-521, into
\* the service up to queryBuilder.getCount()
ListCount(p, r, rawPage, rawLimit) ==
    /\ proc' = Arrive(p, [r EXCEPT !.page = QueryNumber(rawPage, 1),
                                   !.limit = QueryNumber(rawLimit, 10),
                                   !.total = Cardinality(Matching(r)),
                                   !.pc = "l_many"])
    /\ UNCHANGED log

\* a GET request on the order router: the handler of the first matching route
Get(p, u, path, rawPage, rawLimit) ==
    LET route == Dispatch("GET", path)
        r == [NewRequest(p, "get", u) EXCEPT !.path = path, !.handler = route.handler]
    IN  /\ CanArrive(p)
        /\ nreq' = nreq + 1
        /\ IF route.admin /\ u.role # "admin"
           THEN /\ log' = Append(log, Response(r, 403, ErrAdminRequired, NoOrder))
                /\ proc' = Arrive(p, Idle)
           ELSE IF route.handler = "getOrder" THEN GetOrder(p, r, path[1])
           ELSE ListCount(p, r, rawPage, rawLimit)
        /\ UNCHANGED <<stockQuantity, isAvailable, price, orders, orderItems>>

\* service getUserOrders / getAllOrders from the getMany() on, and the
\* controller's answer.  A NaN or negative OFFSET or LIMIT makes the query fail
\* (500); with limit 0 both skip and take are 0 and the query builder may apply
\* no LIMIT at all, and total / 0 is not a finite number
ListMany(p) ==
    LET r == proc[p]
        page == r.page.v
        limit == r.limit.v
        offset == (page - 1) * limit
        all == PageRows(Matching(r), 0, Cardinality(Matching(r)) + 1)
        Answer(rows, pages) ==
            Response([r EXCEPT !.list = [orders |-> rows, total |-> r.total,
                                         page |-> r.page, limit |-> r.limit,
                                         totalPages |-> pages]], 200, ErrNone, NoOrder)
    IN  /\ r.pc = "l_many"
        /\ IF r.page.nan \/ r.limit.nan \/ offset < 0 \/ limit < 0
           THEN log' = Append(log, Response(r, 500, ErrQueryFailed, NoOrder))
           ELSE IF limit = 0
           THEN \E rows \in {<<>>, all} : log' = Append(log, Answer(rows, NaN))
           ELSE log' = Append(log, Answer(PageRows(Matching(r), offset, limit),
                                          Num(TotalPages(r.total, limit))))
        /\ proc' = [proc EXCEPT ![p] = Idle]
        /\ UNCHANGED <<stockQuantity, isAvailable, price, orders, orderItems, nreq>>

\* ------------------------------------------------------------------ system
\* the order ids a request can name: those of the rows, and one without a row
OrderIds == 1..(Len(orders) + 1)

Init ==
    /\ stockQuantity = [p \in Products |-> InitialStock]
    /\ isAvailable \in [Products -> BOOLEAN]
    /\ isAvailable["A"]
    /\ price = [p \in Products |-> IF p = "A" THEN 1000 ELSE 500]
    /\ orders = <<>>
    /\ orderItems = <<>>
    /\ proc = [p \in Procs |-> Idle]
    /\ nreq = 0
    /\ log = <<>>

\* the request bodies of POST /orders
TwoProducts == <<Item("A", 3), Item("B", 1)>>
BodiesSmall == {<<Item("A", 3)>>, <<Item("B", 1)>>}
BodiesLife == {<<>>, TwoProducts, <<Item("A", 3), Item("A", 3)>>, <<Item("A", -1)>>}
BodiesWide ==
    {<<>>, <<Item("A", 3)>>, TwoProducts, <<Item("B", 1), Item("A", 3)>>,
     <<Item("A", 3), Item("A", 3)>>, <<Item("B", 1), Item("Z", 1)>>, <<Item("A", -1)>>}

\* the steps of the handlers in progress
Handle(p) ==
    \/ CreateValidate(p)
    \/ CreateSaveOrder(p)
    \/ CreateSaveItems(p)
    \/ CreateDecrement(p)
    \/ CreateReturn(p)
    \/ CancelRead(p)
    \/ CancelIncrement(p)
    \/ CancelUpdate(p)
    \/ CancelReturn(p)
    \/ UpdateReturn(p)

\* all the operations, the handlers of two requests interleaving
Admin == [id |-> "root", role |-> "admin"]

Next ==
    \E p \in Procs :
        \/ /\ nreq < MaxRequests
           /\ \/ \E its \in BodiesSmall, num \in OrderNumberChoices(FALSE) :
                     CreateStart(p, Admin, its, num)
              \/ \E oid \in OrderIds : CancelStart(p, Admin, oid)
              \/ \E oid \in OrderIds, st \in {SHIPPED, DELIVERED, CANCELLED} :
                     UpdateStart(p, Admin, oid, st)
        \/ Handle(p)

Spec == Init /\ [][Next]_vars

\* all the operations, one request at a time
SeqNext ==
    \/ /\ nreq < MaxRequests
       /\ \/ \E u \in Principals, its \in BodiesLife, num \in OrderNumberChoices(FALSE) :
                 CreateStart(1, u, its, num)
          \/ \E u \in Principals, oid \in OrderIds : CancelStart(1, u, oid)
          \/ \E u \in Principals, oid \in OrderIds, st \in OrderStatus :
                 UpdateStart(1, u, oid, st)
    \/ Handle(1)

SeqSpec == Init /\ [][SeqNext]_vars

\* createOrder traffic only, two requests interleaving
CreateNext ==
    \E p \in Procs :
        \/ /\ nreq < MaxCreates
           /\ \E its \in BodiesWide, num \in OrderNumberChoices(FALSE) :
                  CreateStart(p, [id |-> "alice", role |-> "user"], its, num)
        \/ CreateValidate(p)
        \/ CreateSaveOrder(p)
        \/ CreateSaveItems(p)
        \/ CreateDecrement(p)
        \/ CreateReturn(p)

CreateSpec == Init /\ [][CreateNext]_vars

\* createOrder traffic only, two requests interleaving, the generated order
\* numbers free to collide
NumberNext ==
    \E p \in Procs :
        \/ /\ nreq < MaxCreates
           /\ \E its \in BodiesSmall, num \in OrderNumberChoices(TRUE) :
                  CreateStart(p, [id |-> "alice", role |-> "user"], its, num)
        \/ CreateValidate(p)
        \/ CreateSaveOrder(p)
        \/ CreateSaveItems(p)
        \/ CreateDecrement(p)
        \/ CreateReturn(p)

NumberSpec == Init /\ [][NumberNext]_vars

\* the lifetime of an order: an admin creates, cancels and sets statuses, one
\* request at a time
LifeNext ==
    \/ /\ nreq < MaxLifeRequests
       /\ \/ \E num \in OrderNumberChoices(FALSE) : CreateStart(1, Admin, TwoProducts, num)
          \/ \E oid \in OrderIds : CancelStart(1, Admin, oid)
          \/ \E oid \in OrderIds, st \in OrderStatus : UpdateStart(1, Admin, oid, st)
    \/ Handle(1)

LifeSpec == Init /\ [][LifeNext]_vars

\* the query strings and the paths of the GET requests
PageQueries == {<<>>, <<"0">>, <<"2">>, <<"x">>}
LimitQueries == {<<>>, <<"0">>, <<"-", "1">>, <<"2">>, <<"1", "0", "1">>}
GetPaths == {<<>>, <<AllSeg>>} \cup {<<IdSeg(oid)>> : oid \in OrderIds}
ReadsSoFar == Cardinality({i \in DOMAIN log : log[i].kind = "get"})

\* orders are created and read, one request at a time
ReadNext ==
    \/ /\ Len(orders) < MaxOrders
       /\ nreq < MaxOrders + MaxReads
       /\ \E u \in Principals, num \in OrderNumberChoices(FALSE) :
              CreateStart(1, u, <<Item("A", 1)>>, num)
    \/ /\ ReadsSoFar < MaxReads
       /\ \E u \in Principals, path \in GetPaths :
              \E rawPage \in IF path = <<>> THEN PageQueries ELSE {<<>>},
                 rawLimit \in IF path = <<>> THEN LimitQueries ELSE {<<>>} :
                  Get(1, u, path, rawPage, rawLimit)
    \/ CreateValidate(1)
    \/ CreateSaveOrder(1)
    \/ CreateSaveItems(1)
    \/ CreateDecrement(1)
    \/ CreateReturn(1)
    \/ ListMany(1)

ReadSpec == Init /\ [][ReadNext]_vars

\* orders are created and listed with a page and a limit that are absent or 2,
\* one request at a time
ListQueries == {<<>>, <<"2">>}

ListNext ==
    \/ /\ Len(orders) < MaxOrders
       /\ nreq < MaxOrders + MaxReads
       /\ \E u \in Principals, num \in OrderNumberChoices(FALSE) :
              CreateStart(1, u, <<Item("A", 1)>>, num)
    \/ /\ ReadsSoFar < MaxReads
       /\ \E u \in Principals, rawPage \in ListQueries, rawLimit \in ListQueries :
              Get(1, u, <<>>, rawPage, rawLimit)
    \/ CreateValidate(1)
    \/ CreateSaveOrder(1)
    \/ CreateSaveItems(1)
    \/ CreateDecrement(1)
    \/ CreateReturn(1)
    \/ ListMany(1)

ListSpec == Init /\ [][ListNext]_vars

\* orders are created, cancelled and moved while an admin changes the price and
\* the stock of the products, one request at a time
ProductChanges == {[field |-> "price", value |-> 2000], [field |-> "stockQuantity", value |-> 9]}

CatalogNext ==
    \/ /\ nreq < MaxCatalogRequests
       /\ \/ \E num \in OrderNumberChoices(FALSE) : CreateStart(1, Admin, TwoProducts, num)
          \/ \E oid \in OrderIds : CancelStart(1, Admin, oid)
          \/ \E oid \in OrderIds, st \in {SHIPPED, CANCELLED} : UpdateStart(1, Admin, oid, st)
          \/ \E u \in Principals, pid \in Products, c \in ProductChanges :
                 ProductUpdate(1, u, pid, c.field, c.value)
    \/ Handle(1)
    \/ ProductReturn(1)

CatalogSpec == Init /\ [][CatalogNext]_vars

\* orders are created and cancelled one request at a time, and the process may
\* stop at any await
CrashNext ==
    \/ /\ nreq < MaxCrashRequests
       /\ \/ \E num \in OrderNumberChoices(FALSE) : CreateStart(1, Admin, TwoProducts, num)
          \/ \E oid \in OrderIds : CancelStart(1, Admin, oid)
    \/ CreateValidate(1)
    \/ CreateSaveOrder(1)
    \/ CreateSaveItems(1)
    \/ CreateDecrement(1)
    \/ CreateReturn(1)
    \/ CancelRead(1)
    \/ CancelIncrement(1)
    \/ CancelUpdate(1)
    \/ CancelReturn(1)
    \/ Crash(1)

CrashSpec == Init /\ [][CrashNext]_vars

\* orders are created while orders are read (GET /:id and GET /), two requests
\* interleaving
WatchNext ==
    \E p \in Procs :
        \/ /\ nreq < MaxWatchRequests
           /\ \/ \E num \in OrderNumberChoices(FALSE) :
                     CreateStart(p, Admin, TwoProducts, num)
              \/ \E path \in {<<>>} \cup {<<IdSeg(oid)>> : oid \in OrderIds} :
                     Get(p, Admin, path, <<>>, <<>>)
        \/ CreateValidate(p)
        \/ CreateSaveOrder(p)
        \/ CreateSaveItems(p)
        \/ CreateDecrement(p)
        \/ CreateReturn(p)
        \/ ListMany(p)

WatchSpec == Init /\ [][WatchNext]_vars

\* orders are created and cancelled, two requests interleaving
PairNext ==
    \E p \in Procs :
        \/ /\ nreq < MaxPairRequests
           /\ \/ \E its \in BodiesSmall, num \in OrderNumberChoices(FALSE) :
                     CreateStart(p, Admin, its, num)
              \/ \E oid \in OrderIds : CancelStart(p, Admin, oid)
        \/ CreateValidate(p)
        \/ CreateSaveOrder(p)
        \/ CreateSaveItems(p)
        \/ CreateDecrement(p)
        \/ CreateReturn(p)
        \/ CancelRead(p)
        \/ CancelIncrement(p)
        \/ CancelUpdate(p)
        \/ CancelReturn(p)

PairSpec == Init /\ [][PairNext]_vars

\* Two slots after a first request that is answered before the next one arrives:
\* the traffic in which a request overlaps another one that concerns a different
\* order and other products.
IndepNext ==
    \E p \in Procs :
        \/ /\ nreq < MaxIndepRequests
           /\ nreq = 0 \/ log # <<>>
           /\ \/ \E its \in BodiesSmall, num \in OrderNumberChoices(FALSE) :
                     CreateStart(p, Admin, its, num)
              \/ \E oid \in OrderIds : CancelStart(p, Admin, oid)
        \/ CreateValidate(p)
        \/ CreateSaveOrder(p)
        \/ CreateSaveItems(p)
        \/ CreateDecrement(p)
        \/ CreateReturn(p)
        \/ CancelRead(p)
        \/ CancelIncrement(p)
        \/ CancelUpdate(p)
        \/ CancelReturn(p)

IndepSpec == Init /\ [][IndepNext]_vars

\* ------------------------------------------------------------------ claims
Entries == {log[i] : i \in DOMAIN log}
CreatedOk == {e \in Entries : e.kind = "create" /\ e.http = 201}
LinesFor(its, pid) == {i \in DOMAIN its : its[i].productId = pid}

\* C1: whatever createOrder calls have run, interleaved or not, no product's
\* stockQuantity is negative.
C1_StockNeverNegative == \A pid \in Products : stockQuantity[pid] >= 0

\* C2: with stock 5 of a product and two concurrent createOrder calls for 3 of it
\* each, at most one call succeeds, the other fails with the insufficient-stock
\* error, and the final stock is not negative.
TwoConcurrentCreatesOfThree ==
    /\ Len(log) = 2
    /\ \A i \in 1..2 : /\ log[i].kind = "create"
                       /\ log[i].items = <<Item("A", 3)>>
                       /\ log[i].pre["A"] = 5
    /\ log[1].rid \in log[2].conc \/ log[2].rid \in log[1].conc

C2_AtMostOneOfTwoSucceeds ==
    TwoConcurrentCreatesOfThree =>
        /\ ~(log[1].http = 201 /\ log[2].http = 201)
        /\ \A i \in 1..2 : log[i].http # 201 => log[i].err = ErrInsufficientStock
        /\ stockQuantity["A"] >= 0

\* C3 as stated: after a createOrder that succeeds with nothing running beside
\* it, for every item of the request the product's stock is its stock before the
\* call minus that item's quantity, and the other products' stock is unchanged.
C3_EachItemDecrementsItsProduct ==
    \A e \in CreatedOk : e.quiet =>
        /\ \A i \in DOMAIN e.items :
               e.post[e.items[i].productId]
                   = e.pre[e.items[i].productId] - e.items[i].quantity
        /\ \A pid \in Products : LinesFor(e.items, pid) = {} => e.post[pid] = e.pre[pid]

\* C3 amended: after a createOrder that succeeds with nothing running beside it,
\* every product's stock is its stock before the call minus the total quantity of
\* the request's items that reference it (nothing for a product not referenced).
C3_StockDecreasesByRequestedTotal ==
    \A e \in CreatedOk : e.quiet =>
        \A pid \in Products : e.post[pid] = e.pre[pid] - QtyFor(e.items, pid)

\* a createOrder alone that succeeded with two lines for one product
C3_Witness ==
    \E e \in CreatedOk :
        /\ e.quiet
        /\ Len(e.items) = 2
        /\ e.items[1].productId = e.items[2].productId
        /\ e.post # e.pre

\* C4: in every order createOrder returns, each item has totalPrice = quantity *
\* unitPrice with unitPrice the product's price, and totalAmount is the sum of the
\* items' totalPrice.
C4_TotalsAreConsistent ==
    \A e \in CreatedOk :
        /\ \A i \in DOMAIN e.ret.items :
               /\ e.ret.items[i].unitPrice = price[e.ret.items[i].productId]
               /\ e.ret.items[i].totalPrice
                      = e.ret.items[i].quantity * e.ret.items[i].unitPrice
        /\ e.ret.totalAmount
               = SumSeq([i \in DOMAIN e.ret.items |-> e.ret.items[i].totalPrice])
        /\ e.ret.items = ItemsOf(e.ret.id)

\* a created order with two items of different price and a quantity above one
C4_Witness ==
    \E e \in CreatedOk :
        /\ Len(e.ret.items) = 2
        /\ e.ret.items[1].unitPrice # e.ret.items[2].unitPrice
        /\ e.ret.totalAmount = 3500
\* C5: every successful createOrder returns the order as persisted: status
\* PENDING, the caller as userId, and exactly the persisted items, one per
\* requested item with its productId and quantity.
C5_ReturnsPersistedPendingOrder ==
    \A e \in CreatedOk :
        /\ e.ret.status = PENDING
        /\ e.ret.userId = e.user.id
        /\ e.ret.items = ItemsOf(e.ret.id)
        /\ Len(e.ret.items) = Len(e.items)
        /\ \A i \in DOMAIN e.items :
               /\ e.ret.items[i].productId = e.items[i].productId
               /\ e.ret.items[i].quantity = e.items[i].quantity

\* what the claims expect of one requested item, given the stock st
ItemFault(item, st) ==
    IF item.productId \notin Products THEN ErrProductNotFound
    ELSE IF ~isAvailable[item.productId] THEN ErrProductUnavailable
    ELSE IF item.quantity > st[item.productId] THEN ErrInsufficientStock
    ELSE ErrNone

Faulty(e) == {i \in DOMAIN e.items : ItemFault(e.items[i], e.pre) # ErrNone}
FirstFaulty(e) == CHOOSE i \in Faulty(e) : \A j \in Faulty(e) : i <= j
ValidationErrors == {ErrProductNotFound, ErrProductUnavailable, ErrInsufficientStock}

\* C6: a createOrder with an item whose product is missing, unavailable or short
\* of stock fails as a whole with the matching error and HTTP 400, and leaves no
\* order, no order item and no stock change, even after valid earlier items.
C6_InvalidItemFailsWholeCall ==
    \A e \in Entries : e.kind = "create" =>
        /\ (e.quiet /\ Faulty(e) # {}) =>
               /\ e.http = 400
               /\ e.err = ItemFault(e.items[FirstFaulty(e)], e.pre)
               /\ e.post = e.pre
               /\ e.postOrders = e.preOrders
               /\ e.postItems = e.preItems
        /\ (\E i \in DOMAIN e.items :
                \/ e.items[i].productId \notin Products
                \/ ~isAvailable[e.items[i].productId]) =>
               e.http = 400 /\ e.err \in ValidationErrors
        /\ e.err \in ValidationErrors => e.http = 400 /\ ~e.wrote /\ e.ret = NoOrder

\* a createOrder alone failing on its second item, short of stock, after a valid first
C6_Witness ==
    \E e \in Entries :
        /\ e.kind = "create"
        /\ e.quiet
        /\ Len(e.items) = 2
        /\ Faulty(e) = {2}
        /\ e.err = ErrInsufficientStock
        /\ e.pre # [pid \in Products |-> 5]

\* C7: createOrder rejects an empty items list and any quantity < 1, leaving
\* orders and stock unchanged; so every persisted OrderItem has quantity > 0 and no
\* createOrder ever increases a product's stock.
C7_RejectsEmptyAndNonPositive ==
    /\ \A e \in Entries :
           (e.kind = "create"
              /\ (e.items = <<>> \/ \E i \in DOMAIN e.items : e.items[i].quantity < 1))
               => e.http = 400 /\ ~e.wrote
    /\ \A i \in DOMAIN orderItems : orderItems[i].quantity > 0
    /\ \A e \in Entries :
           (e.kind = "create" /\ e.quiet) => \A pid \in Products : e.post[pid] <= e.pre[pid]

Authorized(u, o) == o.userId = u.id \/ u.role = "admin"

\* C8: cancelOrder, alone, on an existing order in status PENDING, CONFIRMED or
\* SHIPPED adds to each product's stock exactly the quantity recorded on the
\* order's items for it, changes no other stock, and sets the status to CANCELLED.
C8_CancelRestoresStock ==
    \A e \in Entries :
        (/\ e.kind = "cancel"
         /\ e.quiet
         /\ e.seen # NoOrder
         /\ Authorized(e.user, e.seen)
         /\ e.seen.status \in {PENDING, CONFIRMED, SHIPPED}) =>
            /\ e.http = 200
            /\ \A pid \in Products : e.post[pid] = e.pre[pid] + QtyFor(e.seen.items, pid)
            /\ e.ret.id = e.oid
            /\ e.ret.status = CANCELLED

\* a shipped order with two items, cancelled
C8_Witness ==
    \E e \in Entries :
        /\ e.kind = "cancel"
        /\ e.http = 200
        /\ e.seen.status = SHIPPED
        /\ Len(e.seen.items) = 2
        /\ e.post # e.pre

\* C9: a successful createOrder followed at once by a successful cancelOrder of
\* that order leaves every product's stock as it was before the createOrder, and
\* the order CANCELLED.
C9_CreateThenCancelRestores ==
    \A i \in 1..(Len(log) - 1) :
        (/\ log[i].kind = "create" /\ log[i].http = 201 /\ log[i].quiet
         /\ log[i + 1].kind = "cancel" /\ log[i + 1].http = 200 /\ log[i + 1].quiet
         /\ log[i + 1].oid = log[i].ret.id
         /\ log[i + 1].rid = log[i].rid + 1) =>
            /\ log[i + 1].post = log[i].pre
            /\ log[i + 1].ret.status = CANCELLED

\* the order of A x3 and B x1 created, then cancelled
C9_Witness ==
    \E i \in DOMAIN log :
        /\ i < Len(log)
        /\ log[i].kind = "create" /\ log[i].http = 201 /\ log[i].items = TwoProducts
        /\ log[i].post = [log[i].pre EXCEPT !["A"] = @ - 3, !["B"] = @ - 1]
        /\ log[i + 1].kind = "cancel" /\ log[i + 1].http = 200
        /\ log[i + 1].oid = log[i].ret.id

\* C10: of two cancelOrder calls in sequence on one order, the second fails with
\* the already-cancelled error as HTTP 400 and changes no stock.
C10_SecondCancelIsRejected ==
    \A i \in 1..(Len(log) - 1) :
        (/\ log[i].kind = "cancel" /\ log[i].http = 200 /\ log[i].quiet
         /\ log[i + 1].kind = "cancel" /\ log[i + 1].quiet
         /\ log[i + 1].oid = log[i].oid
         /\ log[i + 1].rid = log[i].rid + 1) =>
            /\ Authorized(log[i + 1].user, log[i + 1].seen) =>
                   log[i + 1].http = 400 /\ log[i + 1].err = ErrAlreadyCancelled
            /\ log[i + 1].http # 200
            /\ ~log[i + 1].wrote
            /\ log[i + 1].post = log[i].post

\* an order with items cancelled, and the second cancel answered 400
C10_Witness ==
    \E i \in DOMAIN log :
        /\ i < Len(log)
        /\ log[i].kind = "cancel" /\ log[i].http = 200 /\ log[i].post # log[i].pre
        /\ log[i + 1].kind = "cancel" /\ log[i + 1].oid = log[i].oid
        /\ log[i + 1].err = ErrAlreadyCancelled

\* C11: cancelOrder on a DELIVERED order fails with the cannot-cancel-delivered
\* error (HTTP 400), and leaves the order's status and every stock unchanged.
C11_CancelDeliveredIsRejected ==
    \A e \in Entries :
        (/\ e.kind = "cancel"
         /\ e.quiet
         /\ e.before # NoOrder
         /\ e.before.status = DELIVERED) =>
            /\ Authorized(e.user, e.before) => e.http = 400 /\ e.err = ErrDelivered
            /\ e.http # 200
            /\ e.stored = e.before
            /\ e.post = e.pre

\* a delivered order with two items, its cancellation refused
C11_Witness ==
    \E e \in Entries :
        /\ e.kind = "cancel"
        /\ e.err = ErrDelivered
        /\ Len(e.before.items) = 2
        /\ e.stored.status = DELIVERED

\* what the cancelOrder calls for order oid added to the stock of pid, requests
\* running one at a time
RestoredFor(oid, pid) ==
    SumSeq([i \in DOMAIN log |->
               IF log[i].kind = "cancel" /\ log[i].oid = oid
               THEN log[i].post[pid] - log[i].pre[pid] ELSE 0])

\* C12: over any sequence of createOrder, cancelOrder and updateOrderStatus, what
\* is added back to a product's stock on behalf of one order never exceeds the
\* quantities on that order's items (the restoration happens at most once).
C12_RestoredAtMostOnce ==
    \A oid \in DOMAIN orders, pid \in Products :
        RestoredFor(oid, pid) <= QtyFor(ItemsOf(oid), pid)

\* the transition table of the order status
TransitionTable ==
    ({PENDING} \X {CONFIRMED, SHIPPED, DELIVERED, CANCELLED})
        \cup ({CONFIRMED} \X {SHIPPED, DELIVERED, CANCELLED})
        \cup ({SHIPPED} \X {DELIVERED, CANCELLED})

\* C13: updateOrderStatus applies a move from status S to status T only if (S, T)
\* is in the transition table; every other pair is rejected and leaves the order's
\* status unchanged.
C13_UpdateEnforcesTransitionTable ==
    \A e \in Entries :
        (/\ e.kind = "update"
         /\ e.quiet
         /\ e.user.role = "admin"
         /\ e.before # NoOrder
         /\ <<e.before.status, e.newStatus>> \notin TransitionTable) =>
            /\ e.http # 200
            /\ e.stored.status = e.before.status

\* C14: once an order is DELIVERED or CANCELLED, no later cancelOrder or
\* updateOrderStatus call changes its status.
C14_TerminalStatusesAreAbsorbing ==
    \A e \in Entries :
        (/\ e.kind \in {"cancel", "update"}
         /\ e.quiet
         /\ e.before # NoOrder
         /\ e.before.status \in {DELIVERED, CANCELLED}) =>
            e.stored.status = e.before.status

\* C15: a cancel request from a principal who is neither the owner nor an admin
\* is answered 403 and changes neither the order nor any stock; one for an order
\* that does not exist is answered 404, whoever asks.
C15_CancelChecksExistenceThenAccess ==
    \A e \in Entries : e.kind = "cancel" =>
        /\ e.before = NoOrder =>
               /\ e.http = 404 /\ e.err = ErrOrderNotFound
               /\ ~e.wrote
               /\ e.quiet => e.post = e.pre /\ e.postOrders = e.preOrders
        /\ (e.before # NoOrder /\ ~Authorized(e.user, e.before)) =>
               /\ e.http = 403 /\ e.err = ErrAccessDenied
               /\ ~e.wrote
               /\ e.quiet => e.post = e.pre /\ e.stored = e.before

\* alice refused the cancellation of root's order, and told 404 for a missing one
C15_Witness ==
    /\ \E e \in Entries :
           /\ e.kind = "cancel" /\ e.http = 403
           /\ e.user.role = "user"
           /\ Len(e.before.items) = 2
           /\ e.stored.status = PENDING
    /\ \E e \in Entries :
           /\ e.kind = "cancel" /\ e.http = 404
           /\ e.user.role = "user"

\* C16: PUT /orders/:id/status by a principal who is not an admin is answered 403
\* and leaves the order unchanged; by an admin it is answered 200 with the updated
\* order when the order exists, and 404, creating nothing, when it does not.
C16_StatusUpdateIsAdminOnly ==
    \A e \in Entries : (e.kind = "update" /\ e.quiet) =>
        /\ e.user.role # "admin" =>
               /\ e.http = 403 /\ e.err = ErrAdminRequired
               /\ ~e.wrote
               /\ e.stored = e.before
               /\ e.post = e.pre
        /\ (e.user.role = "admin" /\ e.before # NoOrder) =>
               /\ e.http = 200
               /\ e.ret = e.stored
               /\ e.ret = [e.before EXCEPT !.status = e.newStatus]
        /\ (e.user.role = "admin" /\ e.before = NoOrder) =>
               /\ e.http = 404 /\ e.err = ErrOrderNotFound
               /\ e.stored = NoOrder
               /\ e.postOrders = e.preOrders /\ e.postItems = e.preItems

\* an order whose status alice could not set and root could
C16_Witness ==
    \E e, f \in Entries :
        /\ e.kind = "update" /\ f.kind = "update"
        /\ e.oid = f.oid
        /\ e.http = 403 /\ e.before # NoOrder /\ e.newStatus # e.before.status
        /\ f.http = 200 /\ f.ret.status = SHIPPED /\ f.before.status = PENDING

\* C17: GET /orders/all from an admin is dispatched to the all-orders listing
\* handler and answered 200 with the list; the single-order handler does not
\* capture it with id = "all".
C17_AllIsDispatchedToTheListing ==
    \A e \in Entries :
        (e.kind = "get" /\ e.path = <<AllSeg>> /\ e.user.role = "admin") =>
            /\ e.handler = "getAllOrders"
            /\ e.http = 200

\* the rank of order i among the orders ids, newest first
Rank(ids, i) == Cardinality({j \in ids : j >= i})

\* res is page p of the orders ids, L to the page, newest first
PageIsRight(res, ids, p, L) ==
    LET T == Cardinality(ids)
        rest == IF T - (p - 1) * L > 0 THEN T - (p - 1) * L ELSE 0
        got == {res.orders[k].id : k \in DOMAIN res.orders}
    IN  /\ res.total = T
        /\ ~res.totalPages.nan
        /\ res.totalPages.v * L >= T /\ (res.totalPages.v - 1) * L < T
        /\ Len(res.orders) = (IF L < rest THEN L ELSE rest)
        /\ got = {i \in ids : (p - 1) * L < Rank(ids, i) /\ Rank(ids, i) <= p * L}
        /\ \A k \in DOMAIN res.orders :
               \A m \in DOMAIN res.orders : k < m => res.orders[k].id > res.orders[m].id

PagesChecked == {1, 2, 3}
LimitsChecked == {1, 2}

\* C18: for page p >= 1 and limit L >= 1 over T matching orders, the listings
\* give total = T, totalPages = ceil(T / L) and the orders at positions
\* (p-1)*L+1 .. p*L newest first (25 orders by 10: 3 pages, 5 orders on the third);
\* the user listing holds only that user's orders.
C18_ListsAreThePagesOfTheMatchingOrders ==
    /\ \A e \in Entries :
           (/\ e.kind = "get" /\ e.handler = "getUserOrders"
            /\ ~e.page.nan /\ e.page.v >= 1
            /\ ~e.limit.nan /\ e.limit.v >= 1) =>
               /\ e.http = 200
               /\ PageIsRight(e.list, {i \in 1..e.preOrders : orders[i].userId = e.user.id},
                              e.page.v, e.limit.v)
               /\ \A k \in DOMAIN e.list.orders : e.list.orders[k].userId = e.user.id
    /\ \A p \in PagesChecked, L \in LimitsChecked :
           /\ PageIsRight(getAllOrders(p, L), DOMAIN orders, p, L)
           /\ \A u \in Principals :
                  PageIsRight(getUserOrders(u.id, p, L),
                              {i \in DOMAIN orders : orders[i].userId = u.id}, p, L)
    /\ TotalPages(25, 10) = 3
    /\ SkipTake([i \in 1..25 |-> 26 - i], 20, 10) = <<5, 4, 3, 2, 1>>

\* the second page, by two, of a user's three orders: the oldest order alone
C18_Witness ==
    \E e \in Entries :
        /\ e.kind = "get" /\ e.handler = "getUserOrders" /\ e.http = 200
        /\ e.page = Num(2) /\ e.limit = Num(2)
        /\ e.list.total = 2 + 1
        /\ Len(e.list.orders) = 1
        /\ e.list.totalPages = Num(2)

\* C19: for every list request, whatever page and limit the caller supplies, the
\* page and limit used in the query are both >= 1 and the limit is at most 100,
\* and no response holds more than 100 orders.
C19_PageAndLimitAreClamped ==
    \A e \in Entries :
        (e.kind = "get" /\ e.handler \in {"getUserOrders", "getAllOrders"} /\ e.http # 403) =>
            /\ ~e.page.nan /\ e.page.v >= 1
            /\ ~e.limit.nan /\ e.limit.v >= 1 /\ e.limit.v <= 100
            /\ Len(e.list.orders) <= 100

\* C20: in every reachable state no two persisted orders have the same
\* orderNumber, also when two createOrder calls generate the same number.
C20_OrderNumbersAreUnique ==
    \A i \in DOMAIN orders :
        \A j \in DOMAIN orders : i # j => orders[i].orderNumber # orders[j].orderNumber

\* two concurrent createOrder calls with the same number: one is persisted, the
\* other refused by the unique column
C20_Witness ==
    \E e \in Entries :
        /\ e.kind = "create"
        /\ e.err = ErrDuplicateOrderNumber
        /\ e.conc # {}
        /\ \E i \in DOMAIN orders : orders[i].orderNumber = 1
        /\ e.postOrders = 1

\* C21: once an order is persisted, its items (productId, quantity, unitPrice,
\* totalPrice) and its totalAmount never change, whatever createOrder,
\* cancelOrder, updateOrderStatus or product price and stock updates follow; so
\* totalAmount stays the sum of the items' totalPrice.
C21_PersistedOrderIsImmutable ==
    \A e \in CreatedOk :
        LET o == getOrderById(e.ret.id)
        IN  /\ o.items = e.ret.items
            /\ o.totalAmount = e.ret.totalAmount
            /\ o.userId = e.ret.userId /\ o.orderNumber = e.ret.orderNumber
            /\ o.totalAmount = SumSeq([i \in DOMAIN o.items |-> o.items[i].totalPrice])

\* an order created at one price, the product's price changed, the order cancelled
C21_Witness ==
    \E e \in CreatedOk :
        /\ Len(e.ret.items) = 2
        /\ price["A"] # e.ret.items[1].unitPrice
        /\ getOrderById(e.ret.id).status = CANCELLED
        /\ Len(log) = 3

\* C22: createOrder is all-or-nothing: a call that does not succeed, the process
\* stopping between its writes included, leaves no order row, no order-item row
\* and no stock decrement; a call that succeeds leaves all of them.
C22_CreateIsAllOrNothing ==
    \A e \in Entries : (e.kind = "create" /\ e.quiet) =>
        \/ /\ e.http = 201
           /\ e.postOrders = e.preOrders + 1
           /\ e.postItems = e.preItems + Len(e.items)
           /\ \A pid \in Products : e.post[pid] = e.pre[pid] - QtyFor(e.items, pid)
        \/ /\ e.http # 201
           /\ e.postOrders = e.preOrders
           /\ e.postItems = e.preItems
           /\ e.post = e.pre

\* the orders a GET response shows
Shown(e) ==
    IF e.handler = "getOrder" THEN (IF e.http = 200 THEN {e.ret} ELSE {})
    ELSE {e.list.orders[k] : k \in DOMAIN e.list.orders}

\* C23: no partial order is observable: a getOrder or a list running beside a
\* createOrder never returns that order without all of its items, nor while the
\* stock of its items is not yet decremented.
C23_NoPartialOrderIsObserved ==
    \A e \in Entries : e.kind = "get" =>
        \A o \in Shown(e) :
            \A c \in CreatedOk : c.ret.id = o.id =>
                /\ o.items = c.ret.items
                /\ \A pid \in Products : e.post[pid] <= c.pre[pid] - QtyFor(c.items, pid)

\* C25: cancelOrder restores the stock and writes the status together: whether
\* the call ends, fails, or the process stops in it, either nothing of it is
\* stored, or the order is CANCELLED and the stock of all its items restored.
C25_CancelIsAtomic ==
    \A e \in Entries : (e.kind = "cancel" /\ e.quiet /\ e.before # NoOrder) =>
        \/ /\ e.post = e.pre
           /\ e.stored.status = e.before.status
        \/ /\ e.stored.status = CANCELLED
           /\ e.before.status # CANCELLED
           /\ \A pid \in Products :
                  e.post[pid] = e.pre[pid] + QtyFor(e.before.items, pid)

\* two requests were in progress at the same time
Overlap(e, f) == e.rid # f.rid /\ (e.rid \in f.conc \/ f.rid \in e.conc)

\* an order created alone, then two overlapping cancelOrder calls for it
TwoConcurrentCancels ==
    /\ Len(log) = 3
    /\ Active = {}
    /\ log[1].kind = "create" /\ log[1].http = 201 /\ log[1].quiet
    /\ \A i \in 2..3 : /\ log[i].kind = "cancel"
                       /\ log[i].before = log[1].ret
    /\ Overlap(log[2], log[3])

\* C24: of two concurrent cancelOrder calls for one non-terminal order, at most
\* one succeeds, and the order's quantities are added back to the stock exactly
\* once, in every interleaving.
C24_ConcurrentCancelsRestoreOnce ==
    TwoConcurrentCancels =>
        /\ ~(log[2].http = 200 /\ log[3].http = 200)
        /\ \E i \in 2..3 : log[i].http = 200
        /\ stockQuantity = log[1].pre

\* C26: a createOrder whose generated number collides with an existing order's
\* is retried with a new number and succeeds; the collision never reaches the
\* caller as a failed createOrder.
C26_CollisionIsNeverSurfaced ==
    \A e \in Entries : e.kind = "create" =>
        /\ e.err # ErrDuplicateOrderNumber
        /\ (e.quiet /\ Faulty(e) = {}) => e.http = 201

\* the products a request touches, and whether two requests concern one order
Touched(e) ==
    IF e.kind = "create" THEN {e.items[i].productId : i \in DOMAIN e.items}
    ELSE {e.before.items[i].productId : i \in DOMAIN e.before.items}
             \cup {e.seen.items[i].productId : i \in DOMAIN e.seen.items}

SameOrder(e, f) ==
    \/ e.kind = "cancel" /\ f.kind = "cancel" /\ e.oid = f.oid
    \/ e.kind = "cancel" /\ f.kind = "create" /\ f.ret.id = e.oid
    \/ e.kind = "create" /\ f.kind = "cancel" /\ e.ret.id = f.oid

Independent(e, f) == Touched(e) \cap Touched(f) = {} /\ ~SameOrder(e, f)

\* the outcome of e is the one it has when it runs alone from the state it found
AsIfAlone(e) ==
    IF e.kind = "create"
    THEN IF \A i \in DOMAIN e.items : ItemFault(e.items[i], e.pre) = ErrNone
         THEN /\ e.http = 201
              /\ \A i \in DOMAIN e.items :
                     /\ e.ret.items[i].productId = e.items[i].productId
                     /\ e.ret.items[i].quantity = e.items[i].quantity
              /\ \A pid \in Touched(e) : e.post[pid] = e.pre[pid] - QtyFor(e.items, pid)
         ELSE /\ e.http = 400
              /\ \A pid \in Touched(e) : e.post[pid] = e.pre[pid]
    ELSE IF e.before = NoOrder THEN e.http = 404
    ELSE IF e.before.status = CANCELLED
    THEN /\ e.http = 400
         /\ \A pid \in Touched(e) : e.post[pid] = e.pre[pid]
    ELSE /\ e.http = 200
         /\ e.stored.status = CANCELLED
         /\ \A pid \in Touched(e) : e.post[pid] = e.pre[pid] + QtyFor(e.before.items, pid)

Reserved(pid) ==
    SumSeq([i \in DOMAIN orderItems |->
               IF /\ orderItems[i].productId = pid
                  /\ orders[orderItems[i].orderId].status # CANCELLED
               THEN orderItems[i].quantity ELSE 0])

\* C28: in every state with no operation in progress, for every product the
\* stock plus the quantities on the orders that are not CANCELLED is the initial
\* stock.
C28_StockIsConserved ==
    Active = {} => \A pid \in Products : stockQuantity[pid] + Reserved(pid) = InitialStock

\* C29: a createOrder with several lines for one product succeeds only if the sum
\* of their quantities is within the product's stock; otherwise it fails with
\* the insufficient-stock error and leaves stock and orders unchanged.
C29_DuplicateLinesAreSummed ==
    \A e \in Entries :
        (/\ e.kind = "create"
         /\ e.quiet
         /\ \E pid \in Products : Cardinality(LinesFor(e.items, pid)) > 1) =>
            IF \A pid \in Products : QtyFor(e.items, pid) <= e.pre[pid]
            THEN e.http = 201 \/ e.err \in ValidationErrors
            ELSE /\ e.http = 400 /\ e.err = ErrInsufficientStock
                 /\ e.post = e.pre
                 /\ e.postOrders = e.preOrders

\* the request whose handler takes the step, when slot p's handler is the one moving
Stepping(p) == IF proc[p].pc # "idle" THEN proc[p] ELSE proc'[p]

\* C30: a call updateOrderStatus(orderId, newStatus) changes nothing but the status
\* of the order with that id, also when newStatus is CANCELLED: the stock, the
\* prices, the order items, the number of orders, every other order, and every
\* other field of the named order stay as they are; when no order has that id,
\* nothing changes at all.
C30_UpdateStatusOnlyWritesStatus ==
    [][\A p \in Procs :
           (Stepping(p).kind = "update" /\ proc'[p].pc # proc[p].pc) =>
               /\ stockQuantity' = stockQuantity
               /\ isAvailable' = isAvailable
               /\ price' = price
               /\ orderItems' = orderItems
               /\ DOMAIN orders' = DOMAIN orders
               /\ \A i \in DOMAIN orders :
                      IF i = Stepping(p).oid
                      THEN /\ orders'[i] = [orders[i] EXCEPT !.status = orders'[i].status]
                           /\ orders'[i].status \in {orders[i].status, Stepping(p).newStatus}
                      ELSE orders'[i] = orders[i]]_vars

\* an order with items set to CANCELLED by updateOrderStatus while another order
\* exists: answered 200, the stock as it was
C30_Witness ==
    \E e \in Entries :
        /\ e.kind = "update" /\ e.newStatus = CANCELLED /\ e.http = 200
        /\ e.before # NoOrder /\ e.before.status = PENDING /\ e.before.items # <<>>
        /\ e.stored.status = CANCELLED /\ e.stored.items = e.before.items
        /\ e.post = e.pre
        /\ e.preOrders = 2 /\ e.postOrders = 2

====
